---- MODULE Spec2Model ----
(***************************************************************************)
(* Model of the LXD profile API handlers (profiles and profiles/{name}):   *)
(* profilesGet, profilesPost, profileGet, profilePut, profilePatch,        *)
(* profilePost and profileDelete.  Every request is served by its own     *)
(* worker; a worker's steps are the database transactions of its handler. *)
(***************************************************************************)
EXTENDS Integers, Sequences, FiniteSets, TLC

\* ------------------------------------------------------------------ bounds
\* Number of requests served in one behaviour.
MaxReqs == 2

\* Concurrent request workers and the other members of the cluster.
Workers == {"w1", "w2"}
Nodes == {"n2", "n3"}

\* ------------------------------------------------------------- data domain
\* Projects known to the database; "p2" has features.profiles disabled.
Projects == {"default", "p1", "p2"}

\* Profile names are character sequences, so that the handlers' checks on
\* the characters of a name are computed and not looked up.
NameDefault == <<"d", "e", "f", "a", "u", "l", "t">>
NameWeb == <<"w", "e", "b">>
NameDb == <<"d", "b">>
NameEmpty == <<>>
NameSlash == <<"a", "/", "b">>
NameDot == <<".">>
NameDotDot == <<".", ".">>

\* Names used in the URL ({name}) and names used in a request body.
UrlNames == {NameDefault, NameWeb, NameDb}
BodyNames == {NameEmpty, NameDefault, NameWeb, NameDb, NameSlash, NameDot, NameDotDot}

EmptyMap == [k \in {} |-> ""]
Cpu2 == ("limits.cpu" :> "2")
Cpu4 == ("limits.cpu" :> "4")
Mem512 == ("limits.memory" :> "512MB")
Bogus == ("bogus.key" :> "1")
Nic == ("type" :> "nic")
Disk == ("type" :> "disk")
Eth0Nic == ("eth0" :> Nic)
Eth0Disk == ("eth0" :> Disk)
RootDisk == ("root" :> Disk)

\* A JSON request body.  hasX says whether the key X is present in the raw
\* document; a key that is absent decodes to the zero value of the typed
\* struct ("" for description, a nil map for config and devices).
Doc(hd, d, hc, c, hv, v) ==
    [wellFormed |-> TRUE, hasDescription |-> hd, description |-> d,
     hasConfig |-> hc, config |-> c, hasDevices |-> hv, devices |-> v]
DocNone == Doc(FALSE, "", FALSE, EmptyMap, FALSE, EmptyMap)
Malformed == [DocNone EXCEPT !.wellFormed = FALSE]
Docs ==
    { DocNone,
      Malformed,
      Doc(FALSE, "", TRUE, Cpu2, FALSE, EmptyMap),
      Doc(FALSE, "", TRUE, Mem512, FALSE, EmptyMap),
      Doc(TRUE, "d1", TRUE, Cpu4, FALSE, EmptyMap),
      Doc(FALSE, "", TRUE, EmptyMap, FALSE, EmptyMap),
      Doc(TRUE, "", FALSE, EmptyMap, FALSE, EmptyMap),
      Doc(FALSE, "", TRUE, Bogus, FALSE, EmptyMap),
      Doc(FALSE, "", FALSE, EmptyMap, TRUE, Eth0Nic),
      Doc(TRUE, "d1", FALSE, EmptyMap, TRUE, RootDisk),
      Doc(FALSE, "", FALSE, EmptyMap, TRUE, Eth0Disk),
      Doc(FALSE, "", FALSE, EmptyMap, TRUE, EmptyMap) }

\* ---------------------------------------------------------------- helpers
\* tx.ProjectHasProfiles: whether the project has the profiles feature.
ProjectHasProfiles(project) == project \in {"default", "p1"}

\* strings.Contains(name, "/")
ContainsSlash(name) == \E i \in 1..Len(name) : name[i] = "/"

\* shared.StringInSlice(name, []string{".", ".."})
IsDotNameOnlyDot(name) == name = <<".">>
IsDotName(name) == name \in {<<".">>, <<".", ".">>}

\* containerValidConfig / containerValidDevices: the external validators.
KnownKeys == {"limits.cpu", "limits.memory"}
ValidConfig(config) == \A k \in DOMAIN config : k \in KnownKeys
ValidDevices(devices) == \A k \in DOMAIN devices : "type" \in DOMAIN devices[k]

\* db.ProfileToAPI: the API view of a database row.
ProfileToAPI(p) ==
    [name |-> p.name, description |-> p.description,
     config |-> p.config, devices |-> p.devices]

\* The etag of a profile: []interface{}{Config, Description, Devices}.
Etag(p) == <<p.config, p.description, p.devices>>

\* util.EtagHash: the hash of the serialised etag data.
EtagHash(etag) == <<"sha256", etag>>

\* util.EtagCheck: the caller's token against the hash of the etag data.
EtagCheck(token, etag) == token = EtagHash(etag)

\* Responses.
NoBody == {}
Response(kind, err) == [kind |-> kind, err |-> err, body |-> NoBody, etag |-> <<"none">>]
SyncResponse(body) == [Response("Sync", "nil") EXCEPT !.body = body]
SyncResponseETag(body, etag) ==
    [Response("Sync", "nil") EXCEPT !.body = body, !.etag = EtagHash(etag)]
BadRequest(err) == Response("BadRequest", err)
Forbidden(err) == Response("Forbidden", err)
PreconditionFailed(err) == Response("PreconditionFailed", err)
SmartError(err) == IF err = "nil" THEN Response("Sync", "nil") ELSE Response("Error", err)

\* ------------------------------------------------------------------- state
VARIABLES
    profiles,   \* the rows of the profiles table
    nextId,     \* the next row id the table hands out
    used,       \* <<project, name>> of the profiles some instance references
    reqs,       \* number of requests received so far
    pc,         \* per worker: the step of the handler it is at
    r,          \* per worker: the request it serves and the handler's locals
    issued,     \* <<row id, token>> returned by profileGet so far
    stale,      \* <<row id, token>> issued before a write that changed the row
    alive       \* the other nodes of the cluster this node believes alive

vars == <<profiles, nextId, used, reqs, pc, r, issued, stale, alive>>

\* Per node, the number of UpdateProfile calls a request has made to it.
NoneSent == [n \in Nodes |-> 0]

NoFields == [description |-> "", config |-> EmptyMap, devices |-> EmptyMap]

Blank ==
    [op |-> "none", project |-> "default", name |-> NameEmpty,
     newName |-> NameEmpty, token |-> <<"none">>, doc |-> DocNone,
     notification |-> FALSE, id |-> 0, profile |-> NoFields, req |-> NoFields,
     resp |-> Response("none", "nil"),
     read |-> FALSE, wrote |-> FALSE, sent |-> NoneSent, applied |-> FALSE]

Row(id, project, name, f) ==
    [id |-> id, project |-> project, name |-> name,
     description |-> f.description, config |-> f.config, devices |-> f.devices]

Fields(p) == [description |-> p.description, config |-> p.config, devices |-> p.devices]

\* The default profile of every project that has the profiles feature.
DefaultRows ==
    {Row(1, "default", NameDefault, NoFields), Row(2, "p1", NameDefault, NoFields)}

\* The fields of the profile web of project default, created earlier.
WebFields == [description |-> "", config |-> Cpu2, devices |-> Eth0Nic]

Init ==
    /\ profiles = DefaultRows \cup {Row(3, "default", NameWeb, WebFields)}
    /\ nextId = 4
    /\ used = {}
    /\ reqs = 0
    /\ pc = [w \in Workers |-> "idle"]
    /\ r = [w \in Workers |-> Blank]
    /\ issued = {}
    /\ stale = {}
    /\ alive = {"n2"}

\* ------------------------------------------------------- the store adapter
\* tx.ProfileGet(project, name): the rows with that project and name.
TxProfileGet(store, project, name) ==
    {p \in store : p.project = project /\ p.name = name}

\* Cluster.ProfileGet(project, name): one transaction that resolves the
\* project and fetches the row.
ClusterProfileGet(store, project, name) ==
    TxProfileGet(store, IF ProjectHasProfiles(project) THEN project ELSE "default", name)

\* tx.ProfileList(filter) / tx.ProfileURIs(filter)
TxProfileList(store, project) == {p \in store : p.project = project}

\* tx.ProfileCreate(profile)
TxProfileCreateErr(store, project, name) ==
    IF TxProfileGet(store, project, name) # {} THEN "AlreadyExists" ELSE "nil"
TxProfileCreate(store, id, project, name, f) == store \cup {Row(id, project, name, f)}

\* tx.ProfileRename(project, name, to)
TxProfileRenameErr(store, project, name, to) ==
    IF TxProfileGet(store, project, name) = {} THEN "NotFound"
    ELSE IF TxProfileGet(store, project, to) # {} THEN "Conflict"
    ELSE "nil"
TxProfileRename(store, project, name, to) ==
    {IF p.project = project /\ p.name = name THEN [p EXCEPT !.name = to] ELSE p : p \in store}

\* tx.ProfileDelete(project, name)
TxProfileDeleteErr(store, project, name) ==
    IF TxProfileGet(store, project, name) = {} THEN "NotFound" ELSE "nil"
TxProfileDelete(store, project, name) ==
    {p \in store : ~(p.project = project /\ p.name = name)}

\* getContainersWithProfile(state, project, name)
GetContainersWithProfile(project, name) == {u \in used : u = <<project, name>>}

\* doProfileUpdate(d, project, name, id, profile, req): validates the new
\* fields and overwrites description, config and devices of row id.
DoProfileUpdateErr(store, id, req) ==
    IF ~ValidConfig(req.config) THEN "InvalidConfig"
    ELSE IF ~ValidDevices(req.devices) THEN "InvalidDevices"
    ELSE IF {p \in store : p.id = id} = {} THEN "NotFound"
    ELSE "nil"
DoProfileUpdate(store, id, req) ==
    {IF p.id = id
     THEN [p EXCEPT !.description = req.description, !.config = req.config,
                    !.devices = req.devices]
     ELSE p : p \in store}

\* ------------------------------------------------------- request decoding
\* json.Decode into api.ProfilePut; a nil map is stored as an empty one.
DecodePut(doc) ==
    [description |-> IF doc.hasDescription THEN doc.description ELSE "",
     config |-> IF doc.hasConfig THEN doc.config ELSE EmptyMap,
     devices |-> IF doc.hasDevices THEN doc.devices ELSE EmptyMap]

\* The key-level merge of profilePatch for one map: reqNil is req.X == nil.
MergeMapNoCopy(reqNil, reqMap, prevMap) == IF reqNil THEN prevMap ELSE reqMap
MergeMapPrevWins(reqNil, reqMap, prevMap) ==
    IF reqNil THEN prevMap
    ELSE [k \in DOMAIN reqMap \cup DOMAIN prevMap |->
            IF k \in DOMAIN prevMap THEN prevMap[k] ELSE reqMap[k]]
MergeMap(reqNil, reqMap, prevMap) ==
    IF reqNil THEN prevMap
    ELSE [k \in DOMAIN reqMap \cup DOMAIN prevMap |->
            IF k \in DOMAIN reqMap THEN reqMap[k] ELSE prevMap[k]]

\* The description rule of profilePatch: reqRaw.GetString("description").
MergeDescriptionTyped(doc, prev) ==
    IF doc.description = "" THEN prev ELSE doc.description
MergeDescription(doc, prev) ==
    IF ~doc.hasDescription THEN prev ELSE doc.description

\* The effective update document profilePatch passes to doProfileUpdate.
PatchReq(doc, profile) ==
    [description |-> MergeDescription(doc, profile.description),
     config |-> MergeMap(~doc.hasConfig, doc.config, profile.config),
     devices |-> MergeMap(~doc.hasDevices, doc.devices, profile.devices)]

\* ----------------------------------------------------------------- workers
\* The requests a behaviour draws from: the workers that serve them, the
\* projects, URL names, body names and JSON documents they carry, whether
\* a rename or delete carries an If-Match token, and the number of requests.
InMain ==
    [workers |-> Workers, projects |-> Projects, names |-> {NameDefault, NameWeb},
     bodyNames |-> BodyNames,
     docs |-> {Malformed, Doc(TRUE, "d1", TRUE, Mem512, FALSE, EmptyMap),
               Doc(FALSE, "", TRUE, Bogus, FALSE, EmptyMap)},
     ifMatch |-> FALSE, max |-> MaxReqs]

\* A free worker takes the next request.  Workers are interchangeable, so
\* the second one is used only for a request that arrives while the first
\* is in the middle of a handler.
Idle(w, In) ==
    /\ w \in In.workers
    /\ pc[w] \in {"idle", "done"}
    /\ w = "w1" \/ pc["w1"] \notin {"idle", "done"}
    /\ reqs < In.max

NewReq(op, project, name) ==
    [Blank EXCEPT !.op = op, !.project = project, !.name = name]

\* A request that ends in an error keeps what identifies it and its response.
Failed(q, resp) ==
    [q EXCEPT !.resp = resp, !.doc = DocNone, !.req = NoFields, !.profile = NoFields]

\* The tokens a caller may send: any token a get has returned, or the
\* fingerprint of any profile as it is now.
TokenInputs == {x[2] : x \in issued} \cup {EtagHash(Etag(p)) : p \in profiles}

\* The If-Match token of a rename or delete: none, or any of TokenInputs.
GuardTokens(In) == IF In.ifMatch THEN TokenInputs ELSE {<<"none">>}

\* The tokens of row id that a write changing the row makes stale.
StaleAfter(store, id, req) ==
    IF \E p \in store : p.id = id /\ Fields(p) # req
    THEN stale \cup {x \in issued : x[1] = id}
    ELSE stale

\* profilesGet
profilesGet(w, In) ==
    /\ Idle(w, In)
    /\ \E project \in In.projects, recursion \in BOOLEAN :
         LET eff == IF ProjectHasProfiles(project) THEN project ELSE "default"
             rows == TxProfileList(profiles, eff)
             result == IF recursion THEN {ProfileToAPI(p) : p \in rows}
                       ELSE {<<"1.0", "profiles", p.name>> : p \in rows}
         IN r' = [r EXCEPT ![w] = [NewReq("list", project, NameEmpty) EXCEPT
                                     !.read = TRUE, !.resp = SyncResponse(result)]]
    /\ pc' = [pc EXCEPT ![w] = "done"]
    /\ reqs' = reqs + 1
    /\ UNCHANGED <<profiles, nextId, used, issued, stale, alive>>

\* The response of profileGet for a project and a name on a given store.
GetResponse(store, project, name) ==
    LET eff == IF ProjectHasProfiles(project) THEN project ELSE "default"
        rows == TxProfileGet(store, eff, name)
    IN IF rows = {} THEN {SmartError("NotFound")}
       ELSE {SyncResponseETag({ProfileToAPI(p)}, Etag(ProfileToAPI(p))) : p \in rows}

\* profileGet
profileGet(w, In) ==
    /\ Idle(w, In)
    /\ \E project \in In.projects, name \in In.names :
       \E resp \in GetResponse(profiles, project, name) :
         LET eff == IF ProjectHasProfiles(project) THEN project ELSE "default"
             ids == {p.id : p \in {x \in TxProfileGet(profiles, eff, name) :
                                     {ProfileToAPI(x)} = resp.body}}
         IN /\ r' = [r EXCEPT ![w] = [NewReq("get", project, name) EXCEPT
                                        !.read = TRUE, !.resp = resp]]
            /\ issued' = issued \cup {<<i, resp.etag>> : i \in ids}
    /\ pc' = [pc EXCEPT ![w] = "done"]
    /\ reqs' = reqs + 1
    /\ UNCHANGED <<profiles, nextId, used, stale, alive>>

\* profilesPost, up to the database insert: decoding and sanity checks.
profilesPostCheck(w, In) ==
    /\ Idle(w, In)
    /\ \E project \in In.projects, doc \in In.docs :
         LET fail0(resp) ==
                 /\ r' = [r EXCEPT ![w] = Failed(NewReq("create", project, NameEmpty), resp)]
                 /\ pc' = [pc EXCEPT ![w] = "done"]
         IN IF ~doc.wellFormed THEN fail0(BadRequest("Malformed"))
            ELSE \E name \in In.bodyNames :
            LET q == [NewReq("create", project, NameEmpty) EXCEPT
                        !.newName = name, !.doc = doc, !.req = DecodePut(doc)]
                fail(resp, rd) ==
                    /\ r' = [r EXCEPT ![w] = Failed([q EXCEPT !.read = rd], resp)]
                    /\ pc' = [pc EXCEPT ![w] = "done"]
            IN
            IF name = <<>> THEN fail(BadRequest("No name provided"), FALSE)
            ELSE IF ClusterProfileGet(profiles, project, name) # {}
                 THEN fail(BadRequest("The profile already exists"), TRUE)
            ELSE IF ContainsSlash(name)
                 THEN fail(BadRequest("Profile names may not contain slashes"), TRUE)
            ELSE IF IsDotName(name) THEN fail(BadRequest("Invalid profile name"), TRUE)
            ELSE IF ~ValidConfig(q.req.config) THEN fail(BadRequest("InvalidConfig"), TRUE)
            ELSE IF ~ValidDevices(q.req.devices) THEN fail(BadRequest("InvalidDevices"), TRUE)
            ELSE /\ r' = [r EXCEPT ![w] = [q EXCEPT !.read = TRUE]]
                 /\ pc' = [pc EXCEPT ![w] = "create_tx"]
    /\ reqs' = reqs + 1
    /\ UNCHANGED <<profiles, nextId, used, issued, stale, alive>>

\* profilesPost, the insert transaction.
profilesPostInsertUnchecked(w) ==
    /\ pc[w] = "create_tx"
    /\ profiles' = TxProfileCreate(profiles, nextId, r[w].project, r[w].newName, r[w].req)
    /\ nextId' = nextId + 1
    /\ r' = [r EXCEPT ![w].resp = SyncResponse(NoBody), ![w].wrote = TRUE, ![w].id = nextId]
    /\ pc' = [pc EXCEPT ![w] = "done"]
    /\ UNCHANGED <<used, reqs, issued, stale, alive>>

profilesPostInsert(w) ==
    /\ pc[w] = "create_tx"
    /\ LET q == r[w]
           err == TxProfileCreateErr(profiles, q.project, q.newName)
       IN IF err # "nil"
          THEN /\ r' = [r EXCEPT ![w] = Failed(q, SmartError("Error inserting into database"))]
               /\ UNCHANGED <<profiles, nextId>>
          ELSE /\ profiles' = TxProfileCreate(profiles, nextId, q.project, q.newName, q.req)
               /\ nextId' = nextId + 1
               /\ r' = [r EXCEPT ![w].resp = SyncResponse(NoBody), ![w].wrote = TRUE,
                                 ![w].id = nextId]
    /\ pc' = [pc EXCEPT ![w] = "done"]
    /\ UNCHANGED <<used, reqs, issued, stale, alive>>

\* profilePut as a cluster notification: the payload is the old profile and
\* the node applies the change locally (doProfileUpdateCluster).
profilePutNotificationForwards(w, In) ==
    /\ Idle(w, In)
    /\ \E project \in In.projects, name \in In.names, doc \in In.docs :
         LET q == [NewReq("put", project, name) EXCEPT !.notification = TRUE]
             found == ClusterProfileGet(profiles, project, name) # {}
         IN IF ~doc.wellFormed
            THEN /\ r' = [r EXCEPT ![w] = Failed(q, BadRequest("Malformed"))]
                 /\ pc' = [pc EXCEPT ![w] = "done"]
            ELSE IF ~found
            THEN /\ r' = [r EXCEPT ![w] = Failed([q EXCEPT !.read = TRUE],
                                                 SmartError("NotFound"))]
                 /\ pc' = [pc EXCEPT ![w] = "done"]
            ELSE /\ r' = [r EXCEPT ![w] = [q EXCEPT !.read = TRUE, !.applied = TRUE]]
                 /\ pc' = [pc EXCEPT ![w] = "put_notify"]
    /\ reqs' = reqs + 1
    /\ UNCHANGED <<profiles, nextId, used, issued, stale, alive>>

profilePutNotification(w, In) ==
    /\ Idle(w, In)
    /\ \E project \in In.projects, name \in In.names, doc \in In.docs :
         LET q == [NewReq("put", project, name) EXCEPT !.notification = TRUE]
             found == ClusterProfileGet(profiles, project, name) # {}
         IN r' = [r EXCEPT ![w] =
                IF ~doc.wellFormed THEN Failed(q, BadRequest("Malformed"))
                ELSE IF ~found THEN Failed([q EXCEPT !.read = TRUE], SmartError("NotFound"))
                ELSE [q EXCEPT !.read = TRUE, !.applied = TRUE, !.resp = SmartError("nil")]]
    /\ pc' = [pc EXCEPT ![w] = "done"]
    /\ reqs' = reqs + 1
    /\ UNCHANGED <<profiles, nextId, used, issued, stale, alive>>

\* profilePut's ETag validation: util.EtagCheck on the fetched profile.
PutPreconditionSkipped(token, p) == TRUE
PutPrecondition(token, p) == EtagCheck(token, Etag(ProfileToAPI(p)))

\* profilePut of a client, up to doProfileUpdate: fetch, etag check, decode.
profilePutCheck(w, In) ==
    /\ Idle(w, In)
    /\ \E project \in In.projects, name \in In.names, token \in TokenInputs :
         LET q == [NewReq("put", project, name) EXCEPT !.token = token, !.read = TRUE]
             rows == ClusterProfileGet(profiles, project, name)
             fail(resp) ==
                 /\ r' = [r EXCEPT ![w] = Failed(q, resp)]
                 /\ pc' = [pc EXCEPT ![w] = "done"]
         IN IF rows = {} THEN fail(SmartError("Failed to retrieve profile"))
            ELSE \E p \in rows :
                 IF ~PutPrecondition(token, p)
                 THEN fail(PreconditionFailed("ETag doesn't match"))
                 ELSE \E doc \in In.docs :
                      IF ~doc.wellFormed THEN fail(BadRequest("Malformed"))
                      ELSE /\ r' = [r EXCEPT ![w] = [q EXCEPT !.id = p.id, !.profile = Fields(p),
                                                  !.doc = doc, !.req = DecodePut(doc)]]
                           /\ pc' = [pc EXCEPT ![w] = "put_update"]
    /\ reqs' = reqs + 1
    /\ UNCHANGED <<profiles, nextId, used, issued, stale, alive>>

\* profilePut: doProfileUpdate.
profilePutUpdate(w) ==
    /\ pc[w] = "put_update"
    /\ LET q == r[w]
           err == DoProfileUpdateErr(profiles, q.id, q.req)
       IN IF err # "nil"
          THEN /\ r' = [r EXCEPT ![w] = Failed(q, SmartError(err))]
               /\ pc' = [pc EXCEPT ![w] = "done"]
               /\ UNCHANGED <<profiles, stale>>
          ELSE /\ profiles' = DoProfileUpdate(profiles, q.id, q.req)
               /\ stale' = StaleAfter(profiles, q.id, q.req)
               /\ r' = [r EXCEPT ![w].wrote = TRUE]
               /\ pc' = [pc EXCEPT ![w] = "put_notify"]
    /\ UNCHANGED <<nextId, used, reqs, issued, alive>>

\* profilePut: the notification of the other nodes after a local update.
\* cluster.NewNotifier(NotifyAlive) either fails or binds the nodes believed
\* alive; the notifier then calls UpdateProfile once on each of them and
\* returns an error when one of the calls failed.
profilePutNotify(w) ==
    /\ pc[w] = "put_notify"
    /\ \/ \* cluster.NewNotifier fails
          r' = [r EXCEPT ![w].resp = SmartError("NewNotifier failed")]
       \/ \* the notifier calls UpdateProfile on every node believed alive
          \E failed \in SUBSET alive :
             r' = [r EXCEPT ![w].sent = [n \in Nodes |-> IF n \in alive THEN @[n] + 1
                                                         ELSE @[n]],
                            ![w].resp = SmartError(IF failed # {} THEN "Notify failed"
                                                   ELSE "nil")]
    /\ pc' = [pc EXCEPT ![w] = "done"]
    /\ UNCHANGED <<profiles, nextId, used, reqs, issued, stale, alive>>

\* profilePatch's ETag validation: util.EtagCheck on the fetched profile.
PatchPreconditionSkipped(token, p) == TRUE
PatchPrecondition(token, p) == EtagCheck(token, Etag(ProfileToAPI(p)))

\* profilePatch, up to doProfileUpdate: fetch, etag check, decode and merge.
profilePatchCheck(w, In) ==
    /\ Idle(w, In)
    /\ \E project \in In.projects, name \in In.names, token \in TokenInputs :
         LET q == [NewReq("patch", project, name) EXCEPT !.token = token, !.read = TRUE]
             rows == ClusterProfileGet(profiles, project, name)
             fail(resp) ==
                 /\ r' = [r EXCEPT ![w] = Failed(q, resp)]
                 /\ pc' = [pc EXCEPT ![w] = "done"]
         IN IF rows = {} THEN fail(SmartError("Failed to retrieve profile"))
            ELSE \E p \in rows :
                 IF ~PatchPrecondition(token, p)
                 THEN fail(PreconditionFailed("ETag doesn't match"))
                 ELSE \E doc \in In.docs :
                      IF ~doc.wellFormed THEN fail(BadRequest("Malformed"))
                      ELSE /\ r' = [r EXCEPT ![w] = [q EXCEPT !.id = p.id, !.profile = Fields(p),
                                                  !.doc = doc, !.req = PatchReq(doc, Fields(p))]]
                           /\ pc' = [pc EXCEPT ![w] = "patch_update"]
    /\ reqs' = reqs + 1
    /\ UNCHANGED <<profiles, nextId, used, issued, stale, alive>>

\* profilePatch: doProfileUpdate.
profilePatchUpdateChecked(w) ==
    /\ pc[w] = "patch_update"
    /\ LET q == r[w]
           err == DoProfileUpdateErr(profiles, q.id, q.req)
           current == {p \in profiles : p.id = q.id}
       IN IF \E p \in current : ~EtagCheck(q.token, Etag(ProfileToAPI(p)))
          THEN /\ r' = [r EXCEPT ![w] = Failed(q, PreconditionFailed("ETag doesn't match"))]
               /\ UNCHANGED <<profiles, stale>>
          ELSE IF err # "nil"
          THEN /\ r' = [r EXCEPT ![w] = Failed(q, SmartError(err))]
               /\ UNCHANGED <<profiles, stale>>
          ELSE /\ profiles' = DoProfileUpdate(profiles, q.id, q.req)
               /\ stale' = StaleAfter(profiles, q.id, q.req)
               /\ r' = [r EXCEPT ![w].wrote = TRUE, ![w].resp = SmartError("nil")]
    /\ pc' = [pc EXCEPT ![w] = "done"]
    /\ UNCHANGED <<nextId, used, reqs, issued, alive>>

profilePatchUpdate(w) ==
    /\ pc[w] = "patch_update"
    /\ LET q == r[w]
           err == DoProfileUpdateErr(profiles, q.id, q.req)
       IN IF err # "nil"
          THEN /\ r' = [r EXCEPT ![w] = Failed(q, SmartError(err))]
               /\ UNCHANGED <<profiles, stale>>
          ELSE /\ profiles' = DoProfileUpdate(profiles, q.id, q.req)
               /\ stale' = StaleAfter(profiles, q.id, q.req)
               /\ r' = [r EXCEPT ![w].wrote = TRUE, ![w].resp = SmartError("nil")]
    /\ pc' = [pc EXCEPT ![w] = "done"]
    /\ UNCHANGED <<nextId, used, reqs, issued, alive>>

\* profilePost's guard of the default profile.
RenameForbiddenNever(name) == FALSE
RenameForbidden(name) == name = NameDefault

\* profilePost: rename.
profilePost(w, In) ==
    /\ Idle(w, In)
    /\ \E project \in In.projects, name \in In.names :
         LET fail0(resp) ==
                 /\ r' = [r EXCEPT ![w] = Failed(NewReq("rename", project, name), resp)]
                 /\ UNCHANGED profiles
         IN IF RenameForbidden(name)
            THEN fail0(Forbidden("The 'default' profile cannot be renamed"))
            ELSE \E wellFormed \in BOOLEAN :
            IF ~wellFormed THEN fail0(BadRequest("Malformed"))
            ELSE \E to \in In.bodyNames, token \in GuardTokens(In) :
            LET q == [NewReq("rename", project, name) EXCEPT !.newName = to,
                                                             !.token = token]
                qr == [q EXCEPT !.read = TRUE]
                fail(resp) == /\ r' = [r EXCEPT ![w] = Failed(q, resp)]
                              /\ UNCHANGED profiles
            IN
            IF to = <<>> THEN fail(BadRequest("No name provided"))
            ELSE IF ContainsSlash(to)
                 THEN fail(BadRequest("Profile names may not contain slashes"))
            ELSE IF IsDotName(to) THEN fail(BadRequest("Invalid profile name"))
            ELSE IF TxProfileGet(profiles, project, to) # {}
                 THEN /\ r' = [r EXCEPT ![w] = Failed(qr, SmartError("Name already in use"))]
                      /\ UNCHANGED profiles
            ELSE IF TxProfileRenameErr(profiles, project, name, to) # "nil"
                 THEN /\ r' = [r EXCEPT ![w] = Failed(qr,
                                 SmartError(TxProfileRenameErr(profiles, project, name, to)))]
                      /\ UNCHANGED profiles
            ELSE /\ profiles' = TxProfileRename(profiles, project, name, to)
                 /\ r' = [r EXCEPT ![w] = [qr EXCEPT !.wrote = TRUE,
                                                     !.resp = SyncResponse(NoBody)]]
    /\ pc' = [pc EXCEPT ![w] = "done"]
    /\ reqs' = reqs + 1
    /\ UNCHANGED <<nextId, used, issued, stale, alive>>

\* profileDelete's guard of the default profile.
DeleteForbiddenNever(name) == FALSE
DeleteForbidden(name) == name = NameDefault

\* profileDelete, up to the instance check: the default guard and the fetch.
profileDeleteGet(w, In) ==
    /\ Idle(w, In)
    /\ \E project \in In.projects, name \in In.names, token \in GuardTokens(In) :
         LET q == [NewReq("delete", project, name) EXCEPT !.token = token]
         IN IF DeleteForbidden(name)
            THEN /\ r' = [r EXCEPT ![w] =
                            Failed(q, Forbidden("The 'default' profile cannot be deleted"))]
                 /\ pc' = [pc EXCEPT ![w] = "done"]
            ELSE IF ClusterProfileGet(profiles, project, name) = {}
            THEN /\ r' = [r EXCEPT ![w] = Failed([q EXCEPT !.read = TRUE], SmartError("NotFound"))]
                 /\ pc' = [pc EXCEPT ![w] = "done"]
            ELSE /\ r' = [r EXCEPT ![w] = [q EXCEPT !.read = TRUE]]
                 /\ pc' = [pc EXCEPT ![w] = "delete_inuse"]
    /\ reqs' = reqs + 1
    /\ UNCHANGED <<profiles, nextId, used, issued, stale, alive>>

\* profileDelete: the instance check.
profileDeleteInUseLate(w) ==
    /\ pc[w] = "delete_inuse"
    /\ IF GetContainersWithProfile(r[w].project, r[w].name) # {}
       THEN /\ profiles' = TxProfileDelete(profiles, r[w].project, r[w].name)
            /\ r' = [r EXCEPT ![w] = Failed(r[w], BadRequest("Profile is currently in use"))]
            /\ pc' = [pc EXCEPT ![w] = "done"]
       ELSE /\ pc' = [pc EXCEPT ![w] = "delete_tx"]
            /\ UNCHANGED <<profiles, r>>
    /\ UNCHANGED <<nextId, used, reqs, issued, stale, alive>>

profileDeleteInUse(w) ==
    /\ pc[w] = "delete_inuse"
    /\ IF GetContainersWithProfile(r[w].project, r[w].name) # {}
       THEN /\ r' = [r EXCEPT ![w] = Failed(r[w], BadRequest("Profile is currently in use"))]
            /\ pc' = [pc EXCEPT ![w] = "done"]
       ELSE /\ pc' = [pc EXCEPT ![w] = "delete_tx"]
            /\ UNCHANGED r
    /\ UNCHANGED <<profiles, nextId, used, reqs, issued, stale, alive>>

\* profileDelete: the delete transaction.
profileDeleteTx(w) ==
    /\ pc[w] = "delete_tx"
    /\ LET q == r[w]
           err == TxProfileDeleteErr(profiles, q.project, q.name)
       IN IF err # "nil"
          THEN /\ r' = [r EXCEPT ![w] = Failed(q, SmartError(err))]
               /\ UNCHANGED profiles
          ELSE /\ profiles' = TxProfileDelete(profiles, q.project, q.name)
               /\ r' = [r EXCEPT ![w].wrote = TRUE, ![w].resp = SyncResponse(NoBody)]
    /\ pc' = [pc EXCEPT ![w] = "done"]
    /\ UNCHANGED <<nextId, used, reqs, issued, stale, alive>>

\* An instance starts to use a profile.  Only delete consults the instance
\* index, and only for a profile that is not named default.
MaxInstances == 1
InstanceAttach ==
    /\ Cardinality(used) < MaxInstances
    /\ \E p \in profiles :
         /\ p.name # NameDefault
         /\ <<p.project, p.name>> \notin used
         /\ used' = used \cup {<<p.project, p.name>>}
    /\ UNCHANGED <<profiles, nextId, reqs, pc, r, issued, stale, alive>>

\* An instance stops using a profile.
InstanceDetach ==
    /\ \E u \in used : used' = used \ {u}
    /\ UNCHANGED <<profiles, nextId, reqs, pc, r, issued, stale, alive>>

Next ==
    \/ \E w \in Workers :
        \/ profilesGet(w, InMain)
        \/ profileGet(w, InMain)
        \/ profilesPostCheck(w, InMain)
        \/ profilesPostInsert(w)
        \/ profilePutNotification(w, InMain)
        \/ profilePutCheck(w, InMain)
        \/ profilePutUpdate(w)
        \/ profilePutNotify(w)
        \/ profilePatchCheck(w, InMain)
        \/ profilePatchUpdate(w)
        \/ profilePost(w, InMain)
        \/ profileDeleteGet(w, InMain)
        \/ profileDeleteInUse(w)
        \/ profileDeleteTx(w)
    \/ InstanceAttach
    \/ InstanceDetach

Spec == Init /\ [][Next]_vars

\* ------------------------------------------------- sequences on one profile
\* One client working on the profile web of project default, which either
\* does not exist yet or was created earlier.
MaxSeqReqs == 5

InSeq ==
    [workers |-> {"w1"}, projects |-> {"default"}, names |-> {NameWeb},
     bodyNames |-> {NameWeb},
     docs |-> {Doc(FALSE, "", TRUE, Cpu2, FALSE, EmptyMap),
               Doc(FALSE, "", TRUE, Mem512, FALSE, EmptyMap)},
     ifMatch |-> FALSE, max |-> MaxSeqReqs]

InitSeq ==
    /\ profiles \in {DefaultRows, DefaultRows \cup {Row(3, "default", NameWeb, WebFields)}}
    /\ nextId = 4
    /\ used = {}
    /\ reqs = 0
    /\ pc = [w \in Workers |-> "idle"]
    /\ r = [w \in Workers |-> Blank]
    /\ issued = {}
    /\ stale = {}
    /\ alive = {"n2"}

NextSeq ==
    \E w \in Workers :
        \/ profileGet(w, InSeq)
        \/ profilesPostCheck(w, InSeq)
        \/ profilesPostInsert(w)
        \/ profilePutCheck(w, InSeq)
        \/ profilePutUpdate(w)
        \/ profilePutNotify(w)
        \/ profilePatchCheck(w, InSeq)
        \/ profilePatchUpdate(w)

SpecSeq == InitSeq /\ [][NextSeq]_vars

\* ------------------------------------------------------ the patch merge
\* Patch requests with every document of Docs on the profile web of project
\* default, whose fields before the patch are drawn from PrevFields.
PrevFields ==
    { NoFields,
      WebFields,
      [description |-> "d1", config |-> Cpu2 @@ Mem512, devices |-> EmptyMap],
      [description |-> "d1", config |-> Mem512, devices |-> Eth0Nic @@ RootDisk] }

InMerge ==
    [workers |-> Workers, projects |-> {"default"}, names |-> {NameWeb},
     bodyNames |-> {NameWeb}, docs |-> Docs, ifMatch |-> FALSE, max |-> MaxReqs]

InitMerge ==
    /\ \E f \in PrevFields : profiles = DefaultRows \cup {Row(3, "default", NameWeb, f)}
    /\ nextId = 4
    /\ used = {}
    /\ reqs = 0
    /\ pc = [w \in Workers |-> "idle"]
    /\ r = [w \in Workers |-> Blank]
    /\ issued = {}
    /\ stale = {}
    /\ alive = {"n2"}

NextMerge ==
    \E w \in Workers :
        \/ profilePatchCheck(w, InMerge)
        \/ profilePatchUpdate(w)

SpecMerge == InitMerge /\ [][NextMerge]_vars

\* ------------------------------------------------------------ properties
\* Worker w receives a new request in this step.
Starts(w) ==
    /\ reqs' = reqs + 1
    /\ pc[w] \in {"idle", "done"}
    /\ w = "w1" \/ pc["w1"] \notin {"idle", "done"}

\* The row with the given id.
RowOf(store, id) == CHOOSE p \in store : p.id = id

\* The request of worker w is a client's replace or patch.
ClientUpdate(q) == q.op \in {"put", "patch"} /\ ~q.notification

\* Worker w finishes a patch with success in this step.
PatchSucceeds(w) ==
    /\ pc[w] = "patch_update"
    /\ pc'[w] = "done"
    /\ r'[w].resp.kind = "Sync"

\* C1: a client's replace or patch whose token differs from the fingerprint
\* of the profile's current config, description and devices is answered
\* PreconditionFailed; the request writes nothing to the store, notifies no
\* node, and the stored profiles are as before.
C1_StaleTokenRejected ==
    [][\A w \in Workers :
         (/\ Starts(w)
          /\ ClientUpdate(r'[w])
          /\ \E p \in ClusterProfileGet(profiles, r'[w].project, r'[w].name) :
                r'[w].token # EtagHash(<<p.config, p.description, p.devices>>))
         => /\ pc'[w] = "done"
            /\ r'[w].resp.kind = "PreconditionFailed"
            /\ ~r'[w].wrote
            /\ r'[w].sent = NoneSent
            /\ profiles' = profiles]_vars

C1_Witness ==
    \E w \in Workers :
        /\ pc[w] = "done"
        /\ r[w].op = "patch"
        /\ r[w].resp.kind = "PreconditionFailed"
        /\ r[w].name = NameWeb
        /\ ~r[w].wrote

\* C2 as stated: once a write has changed a profile, every token a get
\* issued for it before that write is answered PreconditionFailed by every
\* later replace or patch.
C2_IssuedTokenRejectedForever ==
    [][\A w \in Workers :
         (/\ Starts(w)
          /\ ClientUpdate(r'[w])
          /\ \E p \in ClusterProfileGet(profiles, r'[w].project, r'[w].name) :
                <<p.id, r'[w].token>> \in stale)
         => r'[w].resp.kind = "PreconditionFailed"]_vars

\* C2 as amended: a replace or patch is answered PreconditionFailed exactly
\* when its token differs from the fingerprint of the profile's fields as
\* they are now.  So a token issued before a write that changed the profile
\* is rejected for as long as the fields differ from those it was computed
\* from, a token fetched with no write since is accepted, and a write that
\* changes the fields changes the fingerprint.
C2_TokenAcceptedIffCurrent ==
    [][/\ \A w \in Workers :
            (Starts(w) /\ ClientUpdate(r'[w]))
            => \A p \in ClusterProfileGet(profiles, r'[w].project, r'[w].name) :
                 /\ (/\ <<p.id, r'[w].token>> \in stale
                     /\ r'[w].token # EtagHash(<<p.config, p.description, p.devices>>))
                    => r'[w].resp.kind = "PreconditionFailed"
                 /\ (/\ <<p.id, r'[w].token>> \in issued
                     /\ r'[w].token = EtagHash(<<p.config, p.description, p.devices>>))
                    => r'[w].resp.kind # "PreconditionFailed"
       /\ \A p \in profiles, q \in profiles' :
            (p.id = q.id /\ Fields(p) # Fields(q))
            => /\ EtagHash(Etag(ProfileToAPI(p))) # EtagHash(Etag(ProfileToAPI(q)))
               /\ \A x \in issued : x[1] = p.id => x \in stale']_vars

\* The scenario of C2: web was created with limits.cpu=2, patched with
\* limits.memory=512MB under the token T1 of the first get, and a replace
\* that carries T1 has just been rejected.
C2_Witness ==
    /\ pc["w1"] = "done"
    /\ r["w1"].op = "put"
    /\ r["w1"].resp.kind = "PreconditionFailed"
    /\ r["w1"].token = EtagHash(<<Cpu2, "", EmptyMap>>)
    /\ <<4, r["w1"].token>> \in stale
    /\ \E p \in profiles :
         /\ p.id = 4 /\ p.project = "default" /\ p.name = NameWeb
         /\ p.config = Cpu2 @@ Mem512
         /\ EtagHash(Etag(p)) # r["w1"].token

\* C3: after a successful patch the stored config holds every key of the
\* document's config with the document's value and every other key of the
\* previous config with its previous value, and nothing else; an absent
\* config leaves the previous config whole; the same holds for devices; so
\* the keys of either map after the patch include the keys before it.
MergedAsStated(supplied, docMap, prevMap, newMap) ==
    IF ~supplied THEN newMap = prevMap
    ELSE /\ DOMAIN newMap = DOMAIN docMap \cup DOMAIN prevMap
         /\ \A k \in DOMAIN docMap : newMap[k] = docMap[k]
         /\ \A k \in DOMAIN prevMap \ DOMAIN docMap : newMap[k] = prevMap[k]

C3_PatchMergesMaps ==
    [][\A w \in Workers :
         PatchSucceeds(w)
         => LET q == r[w]
                new == RowOf(profiles', q.id)
            IN /\ MergedAsStated(q.doc.hasConfig, q.doc.config, q.profile.config, new.config)
               /\ MergedAsStated(q.doc.hasDevices, q.doc.devices, q.profile.devices,
                                 new.devices)
               /\ DOMAIN q.profile.config \subseteq DOMAIN new.config
               /\ DOMAIN q.profile.devices \subseteq DOMAIN new.devices]_vars

C3_Witness ==
    \E w \in Workers :
        /\ pc[w] = "done"
        /\ r[w].op = "patch"
        /\ r[w].resp.kind = "Sync"
        /\ r[w].profile.config = Cpu2 @@ Mem512
        /\ r[w].doc.hasConfig
        /\ r[w].doc.config = Cpu4
        /\ \E p \in profiles : p.id = r[w].id /\ p.config = Cpu4 @@ Mem512

\* C4 as stated: a patch whose document carries an explicit empty config
\* object leaves the profile with an empty config.
C4_EmptyConfigReplaces ==
    [][\A w \in Workers :
         (PatchSucceeds(w) /\ r[w].doc.hasConfig /\ r[w].doc.config = EmptyMap)
         => RowOf(profiles', r[w].id).config = EmptyMap]_vars

\* C4 as amended: a patch keeps the previous value of every config key its
\* document omits, and a document with an explicit empty config object
\* leaves the config exactly as it was, as a document without config does.
C4_EmptyConfigKeepsPrevious ==
    [][\A w \in Workers :
         PatchSucceeds(w)
         => LET q == r[w]
                new == RowOf(profiles', q.id)
                given == IF q.doc.hasConfig THEN DOMAIN q.doc.config ELSE {}
            IN /\ \A k \in DOMAIN q.profile.config \ given :
                    k \in DOMAIN new.config /\ new.config[k] = q.profile.config[k]
               /\ (q.doc.hasConfig /\ q.doc.config = EmptyMap)
                  => new.config = q.profile.config]_vars

C4_Witness ==
    \E w \in Workers :
        /\ pc[w] = "done"
        /\ r[w].op = "patch"
        /\ r[w].resp.kind = "Sync"
        /\ r[w].doc.hasConfig
        /\ r[w].doc.config = EmptyMap
        /\ r[w].profile.config = Cpu2 @@ Mem512
        /\ \E p \in profiles : p.id = r[w].id /\ p.config = Cpu2 @@ Mem512

\* C5: after a successful patch the description is the previous one when
\* the raw document has no description key, and the supplied one, the
\* empty string included, when it has.
C5_PatchDescription ==
    [][\A w \in Workers :
         PatchSucceeds(w)
         => LET q == r[w]
                new == RowOf(profiles', q.id)
            IN /\ ~q.doc.hasDescription => new.description = q.profile.description
               /\ q.doc.hasDescription => new.description = q.doc.description]_vars

C5_Witness ==
    \E w \in Workers :
        /\ pc[w] = "done"
        /\ r[w].op = "patch"
        /\ r[w].resp.kind = "Sync"
        /\ r[w].doc.hasDescription
        /\ r[w].doc.description = ""
        /\ r[w].profile.description = "d1"
        /\ \E p \in profiles : p.id = r[w].id /\ p.description = ""

\* C6: every project that has its own profiles keeps a profile named
\* default, whatever requests are served; a rename or delete of the name
\* default is answered Forbidden without reading or writing the store.
DefaultExists(store) ==
    \A project \in Projects :
        ProjectHasProfiles(project)
        => \E p \in store : p.project = project /\ p.name = NameDefault

C6_DefaultProfileKept ==
    [][/\ DefaultExists(profiles) => DefaultExists(profiles')
       /\ \A w \in Workers :
            (Starts(w) /\ r'[w].op \in {"rename", "delete"} /\ r'[w].name = NameDefault)
            => /\ pc'[w] = "done"
               /\ r'[w].resp.kind = "Forbidden"
               /\ ~r'[w].read
               /\ ~r'[w].wrote
               /\ profiles' = profiles]_vars

C6_Witness ==
    /\ DefaultExists(profiles)
    /\ \E w \in Workers :
        /\ pc[w] = "done"
        /\ r[w].op = "delete"
        /\ r[w].name = NameDefault
        /\ r[w].resp.kind = "Forbidden"
    /\ \E p \in profiles : p.name = NameDb

\* C7: a delete of a profile that an instance references is answered
\* "in use" and leaves the profile as it was; a delete of a profile that
\* exists and that no instance references succeeds, and a get of that name
\* then answers not found.
C7_DeleteGuardedByInstances ==
    [][\A w \in Workers :
         /\ (/\ pc[w] = "delete_inuse"
             /\ pc'[w] # pc[w]
             /\ GetContainersWithProfile(r[w].project, r[w].name) # {})
            => /\ pc'[w] = "done"
               /\ r'[w].resp.err = "Profile is currently in use"
               /\ profiles' = profiles
         /\ (/\ pc[w] = "delete_tx"
             /\ pc'[w] = "done"
             /\ GetResponse(profiles, r[w].project, r[w].name) # {SmartError("NotFound")}
             /\ GetContainersWithProfile(r[w].project, r[w].name) = {})
            => /\ r'[w].resp.kind = "Sync"
               /\ GetResponse(profiles', r[w].project, r[w].name) = {SmartError("NotFound")}]_vars

\* C8: a rename to a name in use in the namespace is answered "already in
\* use" and changes nothing; a rename of an existing profile not named
\* default to an unused valid name succeeds, and then a get of the old name
\* answers not found and a get of the new name returns the description,
\* config and devices (and so the fingerprint) the profile had.
ValidName(name) == name # <<>> /\ ~ContainsSlash(name) /\ ~IsDotName(name)

Visible(store, project, name) == GetResponse(store, project, name) # {SmartError("NotFound")}

C8_RenameKeepsFields ==
    [][\A w \in Workers :
         (/\ Starts(w)
          /\ r'[w].op = "rename"
          /\ r'[w].name # NameDefault
          /\ ValidName(r'[w].newName))
         => LET q == r'[w]
            IN /\ Visible(profiles, q.project, q.newName)
                  => /\ q.resp.err = "Name already in use"
                     /\ profiles' = profiles
               /\ (Visible(profiles, q.project, q.name) /\ ~Visible(profiles, q.project, q.newName))
                  => /\ q.resp.kind = "Sync"
                     /\ ~Visible(profiles', q.project, q.name)
                     /\ \E a \in GetResponse(profiles, q.project, q.name),
                           b \in GetResponse(profiles', q.project, q.newName) :
                          /\ a.etag = b.etag
                          /\ \E x \in a.body, y \in b.body : Fields(x) = Fields(y)]_vars

\* C9: no two rows have the same project and name; the insert of a create
\* changes no row that exists; and two creates of one name served at the
\* same time do not both succeed.
Unique(store) ==
    \A p \in store, q \in store : (p.project = q.project /\ p.name = q.name) => p = q

Created(w) == pc[w] = "done" /\ r[w].op = "create" /\ r[w].resp.kind = "Sync"

C9_UniqueNames ==
    [][/\ Unique(profiles) /\ Unique(profiles')
       /\ \A w \in Workers :
            (pc[w] = "create_tx" /\ pc'[w] = "done") => profiles \subseteq profiles'
       /\ ~(/\ Created("w1")' /\ Created("w2")'
            /\ r'["w1"].project = r'["w2"].project
            /\ r'["w1"].newName = r'["w2"].newName)]_vars

\* Two creates of one name were in flight together: one inserted the row,
\* the other was refused by the insert transaction.
C9_Witness ==
    /\ Created("w2")
    /\ pc["w1"] = "done"
    /\ r["w1"].op = "create"
    /\ r["w1"].resp.err = "Error inserting into database"
    /\ r["w1"].project = r["w2"].project
    /\ r["w1"].newName = r["w2"].newName
    /\ Unique(profiles)

\* C10: no profile is stored under a project that lacks the profiles
\* feature, and a profile created through such a project is returned by a
\* get through it.
C10_NoProfileUnderAliasedProject ==
    /\ \A p \in profiles : ProjectHasProfiles(p.project)
    /\ \A w \in Workers :
         Created(w) => \A p \in profiles :
                          p.id = r[w].id => Visible(profiles, r[w].project, p.name)

\* ------------------------------------------------ updates in a cluster
\* The heartbeat finds a node offline, or online again.
Heartbeat ==
    /\ \E n \in Nodes : alive' = IF n \in alive THEN alive \ {n} ELSE alive \cup {n}
    /\ UNCHANGED <<profiles, nextId, used, reqs, pc, r, issued, stale>>

\* Replace and patch requests of clients, and replace requests that are
\* notifications of other nodes, on the profile web of project default,
\* while the set of nodes believed alive changes.
InUpdate ==
    [workers |-> Workers, projects |-> {"default"}, names |-> {NameWeb},
     bodyNames |-> {NameWeb},
     docs |-> {Malformed, Doc(TRUE, "d1", TRUE, Mem512, FALSE, EmptyMap),
               Doc(FALSE, "", TRUE, Cpu4, FALSE, EmptyMap)},
     ifMatch |-> FALSE, max |-> MaxReqs]

InitUpdate ==
    /\ profiles = DefaultRows \cup {Row(3, "default", NameWeb, WebFields)}
    /\ nextId = 4
    /\ used = {}
    /\ reqs = 0
    /\ pc = [w \in Workers |-> "idle"]
    /\ r = [w \in Workers |-> Blank]
    /\ issued = {}
    /\ stale = {}
    /\ alive \in SUBSET Nodes

NextUpdate ==
    \/ \E w \in Workers :
        \/ profilePutNotification(w, InUpdate)
        \/ profilePutCheck(w, InUpdate)
        \/ profilePutUpdate(w)
        \/ profilePutNotify(w)
        \/ profilePatchCheck(w, InUpdate)
        \/ profilePatchUpdate(w)
    \/ Heartbeat

SpecUpdate == InitUpdate /\ [][NextUpdate]_vars

\* One UpdateProfile call to every node of the set, none to any other node.
SentExactlyTo(sent, nodes) ==
    \A n \in Nodes : sent[n] = IF n \in nodes THEN 1 ELSE 0

\* Worker w ends a client's replace that has written locally in this step.
ReplaceEnds(w) ==
    /\ pc[w] = "put_notify"
    /\ pc'[w] = "done"
    /\ r[w].wrote
    /\ ~r[w].notification

\* C11: when a client's replace that has written locally ends, it has sent
\* one notification to every node believed alive and none to any other
\* node; so a replace that answers success has notified every alive node
\* exactly once.
C11_WrittenReplaceNotifiesAlive ==
    [][\A w \in Workers :
         ReplaceEnds(w) => SentExactlyTo(r'[w].sent, alive)]_vars

\* C12: a client's patch that succeeds has, like a replace, sent one
\* notification to every node believed alive; with every node alive, every
\* node has been told to apply the change.
C12_PatchNotifiesAlive ==
    [][\A w \in Workers :
         (PatchSucceeds(w) /\ ~r[w].notification /\ r'[w].wrote)
         => SentExactlyTo(r'[w].sent, alive)]_vars

\* The number of UpdateProfile calls a request has made.
RECURSIVE SumOver(_, _)
SumOver(sent, nodes) ==
    IF nodes = {} THEN 0
    ELSE LET n == CHOOSE x \in nodes : TRUE
         IN sent[n] + SumOver(sent, nodes \ {n})
TotalSent(q) == SumOver(q.sent, Nodes)

\* C13: a replace flagged as a notification is applied locally when the
\* profile exists, writes nothing to the database, never reaches the
\* notifier and sends no notification; a request sends notifications only
\* in the notifier step of a client's replace, once to each node believed
\* alive and to no other node, so one client replace causes at most as
\* many notifications as there are nodes alive.
C13_NoRepropagation ==
    [][\A w \in Workers :
         /\ r'[w].notification
            => /\ r'[w].sent = NoneSent
               /\ ~r'[w].wrote
               /\ pc'[w] \in {"idle", "done"}
               /\ (r'[w].resp.kind = "Sync") = r'[w].applied
         /\ (Starts(w) /\ r'[w].notification) => profiles' = profiles
         /\ r'[w].sent # r[w].sent
            => \/ Starts(w) /\ r'[w].sent = NoneSent
               \/ /\ ReplaceEnds(w)
                  /\ r[w].sent = NoneSent
                  /\ SentExactlyTo(r'[w].sent, alive)
                  /\ \A n \in Nodes : r'[w].sent[n] = 1 => n \in alive
                  /\ TotalSent(r'[w]) <= Cardinality(alive)]_vars

\* A notification was applied while both other nodes were alive, and the
\* request sent nothing.
C13_Witness ==
    \E w \in Workers :
        /\ pc[w] = "done"
        /\ r[w].op = "put"
        /\ r[w].notification
        /\ r[w].applied
        /\ r[w].resp.kind = "Sync"
        /\ TotalSent(r[w]) = 0
        /\ alive = Nodes
        /\ \E v \in Workers :
             /\ v # w /\ ~r[v].notification /\ r[v].op = "put"
             /\ pc[v] = "done" /\ TotalSent(r[v]) = 2

\* C14: a client's replace that has written locally answers success,
\* whether or not the notifier could be created and whatever the calls to
\* the other nodes returned.
C14_WrittenReplaceSucceeds ==
    [][\A w \in Workers : ReplaceEnds(w) => r'[w].resp.kind = "Sync"]_vars

\* ------------------------------------------- tokens on every mutation
\* One client that sends an If-Match token with every replace, patch,
\* rename and delete of the profiles default and web of project default.
InGuard ==
    [workers |-> {"w1"}, projects |-> {"default"}, names |-> {NameDefault, NameWeb},
     bodyNames |-> {NameWeb, NameDb},
     docs |-> {Doc(TRUE, "d1", TRUE, Mem512, FALSE, EmptyMap)},
     ifMatch |-> TRUE, max |-> MaxSeqReqs]

NextGuard ==
    \E w \in Workers :
        \/ profilePutCheck(w, InGuard)
        \/ profilePutUpdate(w)
        \/ profilePutNotify(w)
        \/ profilePatchCheck(w, InGuard)
        \/ profilePatchUpdate(w)
        \/ profilePost(w, InGuard)
        \/ profileDeleteGet(w, InGuard)
        \/ profileDeleteInUse(w)
        \/ profileDeleteTx(w)

SpecGuard == Init /\ [][NextGuard]_vars

\* C15: a replace, patch, rename or delete writes to the store only when
\* the token of the request is the fingerprint of the config, description
\* and devices the profile has before the write.
C15_WritesCarryCurrentToken ==
    [][\A w \in Workers :
         (/\ Starts(w) \/ pc'[w] # pc[w]
          /\ r'[w].wrote
          /\ profiles' # profiles
          /\ r'[w].op \in {"put", "patch", "rename", "delete"})
         => \E p \in ClusterProfileGet(profiles, r'[w].project, r'[w].name) :
               r'[w].token = EtagHash(<<p.config, p.description, p.devices>>)]_vars

\* ---------------------------------------------------------- valid names
\* A name that is empty, contains a slash, or is "." or "..".
NameViolates(name) ==
    \/ Len(name) = 0
    \/ "/" \in {name[i] : i \in DOMAIN name}
    \/ name = <<".">>
    \/ name = <<".", ".">>

NamesValid(store) == \A p \in store : ~NameViolates(p.name)

\* Worker w receives a create or rename whose (new) name violates the rule.
BadNameRequest(w) ==
    /\ Starts(w)
    /\ r'[w].op \in {"create", "rename"}
    /\ r'[w].resp.err # "Malformed"
    /\ NameViolates(r'[w].newName)

\* C16 as stated: no stored profile has a name that is empty, contains a
\* slash or is "." or ".."; a create or rename with such a (new) name is
\* answered BadRequest and leaves the store as it was.
C16_BadNameIsBadRequest ==
    [][/\ NamesValid(profiles) /\ NamesValid(profiles')
       /\ \A w \in Workers :
            BadNameRequest(w)
            => /\ pc'[w] = "done"
               /\ r'[w].resp.kind = "BadRequest"
               /\ profiles' = profiles]_vars

\* C16 as amended: no stored profile has such a name; a create with such a
\* name, and a rename to such a name of a profile not named default, is
\* answered BadRequest; a rename of the profile default is answered
\* Forbidden whatever the new name; in each case the store is left as it
\* was and the request has not written.
C16_BadNameRefused ==
    [][/\ NamesValid(profiles) /\ NamesValid(profiles')
       /\ \A w \in Workers :
            BadNameRequest(w)
            => /\ pc'[w] = "done"
               /\ r'[w].resp.kind =
                     IF r'[w].op = "rename" /\ r'[w].name = NameDefault
                     THEN "Forbidden" ELSE "BadRequest"
               /\ ~r'[w].wrote
               /\ profiles' = profiles]_vars

\* After a create of db was stored, a create of ".." was answered
\* BadRequest, and the stored names are valid.
C16_Witness ==
    /\ NamesValid(profiles)
    /\ \E p \in profiles : p.name = NameDb
    /\ \E w \in Workers :
        /\ pc[w] = "done"
        /\ r[w].op = "create"
        /\ r[w].newName = NameDotDot
        /\ r[w].resp = BadRequest("Invalid profile name")

\* ------------------------------------------------ instances and rename
\* Every profile an instance references exists.
ReferencesResolve(store, refs) ==
    \A u \in refs : TxProfileGet(store, u[1], u[2]) # {}

\* C17: a rename of a profile that an instance references is refused and
\* the profile keeps its name; so a rename leaves every profile name that
\* an instance references the name of an existing profile.
C17_RenameGuardedByInstances ==
    [][\A w \in Workers :
         (Starts(w) /\ r'[w].op = "rename")
         => /\ GetContainersWithProfile(r'[w].project, r'[w].name) # {}
               => /\ r'[w].resp.kind # "Sync"
                  /\ ~r'[w].wrote
                  /\ profiles' = profiles
            /\ ReferencesResolve(profiles, used)
               => ReferencesResolve(profiles', used')]_vars

\* --------------------------------------------- the check-then-write race
\* Worker w runs the update step of a replace or patch in this step.
UpdateStep(w) ==
    /\ pc[w] \in {"put_update", "patch_update"}
    /\ pc'[w] # pc[w]

\* C18: the token is compared when the profile is fetched and not again
\* when it is written: the update step of a replace or patch that passed
\* the check never answers PreconditionFailed and, when the new fields are
\* valid and the row exists, overwrites the row with them, also when
\* another request has changed the row since the check.  So two requests
\* that carry one token can both pass the check and both write.
C18_WriteDoesNotRecheck ==
    [][\A w \in Workers :
         UpdateStep(w)
         => /\ r'[w].resp.kind # "PreconditionFailed"
            /\ DoProfileUpdateErr(profiles, r[w].id, r[w].req) = "nil"
               => /\ r'[w].wrote
                  /\ Fields(RowOf(profiles', r[w].id)) = r[w].req]_vars

\* Two requests carrying the token of the same fields of web both passed
\* the check, both wrote different new fields, neither was answered
\* PreconditionFailed, and the row holds what the later of them wrote.
C18_Witness ==
    /\ pc["w1"] = "done" /\ pc["w2"] = "done"
    /\ ClientUpdate(r["w1"]) /\ ClientUpdate(r["w2"])
    /\ r["w1"].token = r["w2"].token
    /\ r["w1"].token = EtagHash(Etag(WebFields))
    /\ r["w1"].profile = WebFields /\ r["w2"].profile = WebFields
    /\ r["w1"].wrote /\ r["w2"].wrote
    /\ r["w1"].resp.kind # "PreconditionFailed"
    /\ r["w2"].resp.kind # "PreconditionFailed"
    /\ r["w1"].req # r["w2"].req
    /\ r["w1"].req # WebFields /\ r["w2"].req # WebFields
    /\ Fields(RowOf(profiles, 3)) = r["w1"].req

\* ------------------------------------------------- failures and reads
\* Worker w takes a step of the handler of one of the operations.
HandlerStep(w, ops) ==
    /\ r'[w].op \in ops
    /\ Starts(w) \/ pc'[w] # pc[w]

\* C19: a step of a create, rename or delete that does not end the request
\* with success leaves the stored profiles, and so the description, config
\* and devices of each, as they were, and a request that is answered with
\* an error has written nothing; a list or get never changes the store.
C19_FailureLeavesStore ==
    [][\A w \in Workers :
         /\ (/\ HandlerStep(w, {"create", "rename", "delete"})
             /\ ~(pc'[w] = "done" /\ r'[w].resp.kind = "Sync"))
            => /\ profiles' = profiles
               /\ nextId' = nextId
               /\ ~r'[w].wrote
         /\ HandlerStep(w, {"list", "get"})
            => /\ profiles' = profiles
               /\ nextId' = nextId
               /\ ~r'[w].wrote
               /\ pc'[w] = "done"]_vars

\* A delete of web was answered "in use" while an instance referenced it,
\* and web is stored with the fields it had.
C19_Witness ==
    /\ Row(3, "default", NameWeb, WebFields) \in profiles
    /\ <<"default", NameWeb>> \in used
    /\ \E w \in Workers :
        /\ pc[w] = "done"
        /\ r[w].op = "delete"
        /\ r[w].project = "default"
        /\ r[w].name = NameWeb
        /\ r[w].resp = BadRequest("Profile is currently in use")
        /\ ~r[w].wrote

TypeOK == \A w \in Workers : pc[w] \in {"idle", "done", "create_tx", "put_update",
             "put_notify", "patch_update", "delete_inuse", "delete_tx"}
====
